---- MODULE Spec2Model ----
(***************************************************************************)
(* Motion-control state machine of examples/esp32_robot_control.cpp:       *)
(* RobotStatus, the six actuator outputs, executeRobotMove,                *)
(* checkRobotMovement, handleRobotControlMessage and the main loop().      *)
(***************************************************************************)
EXTENDS Integers, Sequences, FiniteSets, TLC

VARIABLES
    robotStatus,  \* struct RobotStatus robotStatus
    pins,         \* the four direction pins and the two LEDC duty registers
    clock,        \* millis(), an unsigned counter of ClockMod values
    pc,           \* position of the single thread of control
    seqRest,      \* steps of the sequence command not yet iterated by the for loop
    seqSpeed,     \* `speed` local of the sequence branch
    outbox,       \* messages handed to webSocket.sendTXT in this turn of loop()
    hist          \* history of the run (observations only, never read by the program)

vars == <<robotStatus, pins, clock, pc, seqRest, seqSpeed, outbox, hist>>

-----------------------------------------------------------------------------
(* Program constants *)

PWM_MAX == 255
SPEED_MAX == 100
MS_PER_SEC == 1000
POLL_DELAY == 10
STEP_PAUSE == 100
ADC_MAX == 4095
BATTERY_MAX == 100

(* Bounds of the model *)

\* millis() and the unsigned long fields are ClockBits wide
ClockBits == 4
\* a float duration is a whole number of 1/(MS_PER_SEC*SubMs) seconds
SubMs == 2
\* longest sequence array of a sequence command
MaxSeqLen == 2
\* the observer counts the polls of one move up to MaxPolls
MaxPolls == 2

ClockMod == 2 ^ ClockBits

-----------------------------------------------------------------------------
(* Input domains *)

MovingDirections == {"forward", "backward", "left", "right"}
\* "null" is what as<String>() yields for a missing field; "spin" is unrecognized
Directions == MovingDirections \cup {"stop", "null", "spin"}
Actions == {"move", "sequence", "get_status", "null", "dance"}

\* durations in units of 1/(MS_PER_SEC*SubMs) s: -1 ms, 0, a fraction of 1 ms,
\* 10 ms, 10 ms and a fraction
Durations == {-SubMs, 0, 1, 10 * SubMs, 10 * SubMs + 1}
Speeds == {-1, 50, 101}
\* the speeds of sequence commands
SequenceSpeeds == {50, 101}
AdcValues == {0, 2048, ADC_MAX}

Step(direction, duration) == [direction |-> direction, duration |-> duration]
Steps ==
    {Step("forward", 10 * SubMs), Step("left", 10 * SubMs + 1), Step("forward", 0),
     Step("stop", 0), Step("null", 10 * SubMs)}

RECURSIVE SeqsUpTo(_)
SeqsUpTo(n) ==
    IF n = 0 THEN {<<>>}
    ELSE LET shorter == SeqsUpTo(n - 1)
         IN  shorter \cup {Append(s, e) : s \in {t \in shorter : Len(t) = n - 1}, e \in Steps}

SequenceArrays == SeqsUpTo(MaxSeqLen)

-----------------------------------------------------------------------------
(* Arithmetic of the platform *)

\* C integer division, truncating toward zero
CDiv(a, b) == IF a >= 0 THEN a \div b ELSE -((-a) \div b)

\* Arduino map(x, in_min, in_max, out_min, out_max)
map(x, in_min, in_max, out_min, out_max) ==
    CDiv((x - in_min) * (out_max - out_min), in_max - in_min) + out_min

\* Arduino constrain(x, lo, hi)
constrain(x, lo, hi) == IF x < lo THEN lo ELSE IF x > hi THEN hi ELSE x

\* the subtraction done in a type wider than the clock
USub_wide(a, b) == a - b

\* unsigned subtraction millis() - moveStartTime
USub(a, b) == (a - b) % ClockMod

\* `robotStatus.moveDuration = duration * 1000`: the float product converted to
\* unsigned long. The conversion truncates toward zero; when the truncated value
\* is negative the behaviour is undefined: the build either saturates to 0 or
\* wraps modulo the width of unsigned long.
DurationMillis(duration) ==
    LET ms == CDiv(duration * MS_PER_SEC, MS_PER_SEC * SubMs)
    IN  IF ms >= 0 THEN {ms % ClockMod} ELSE {0, ms % ClockMod}


-----------------------------------------------------------------------------
(* Messages, after deserializeJson. A missing field reads as "null" (String), *)
(* 0 (float, int) or the empty array.                                         *)

Msg(json, type, hasCommand, action, direction, duration, speed, sequence) ==
    [json |-> json, type |-> type, hasCommand |-> hasCommand, action |-> action,
     direction |-> direction, duration |-> duration, speed |-> speed,
     sequence |-> sequence]

MoveMessages ==
    {Msg(TRUE, "robot_control", TRUE, "move", "forward", t, s, <<>>) :
        t \in Durations, s \in Speeds}
    \cup {Msg(TRUE, "robot_control", TRUE, "move", d, t, 50, <<>>) :
            d \in Directions, t \in {0, 10 * SubMs}}

SequenceMessages ==
    {Msg(TRUE, "robot_control", TRUE, "sequence", "null", 0, s, q) :
        s \in SequenceSpeeds, q \in SequenceArrays}

StatusMessages == {Msg(TRUE, "robot_control", TRUE, "get_status", "null", 0, 0, <<>>)}

\* no command field; command without action; action that is none of the three
MalformedMessages ==
    {Msg(TRUE, "robot_control", FALSE, "null", "null", 0, 0, <<>>)}
    \cup {Msg(TRUE, "robot_control", TRUE, a, "forward", 10 * SubMs, 50, <<>>) :
            a \in {"null", "dance"}}

\* text that is not JSON, and JSON of another message type
ForeignMessages ==
    {Msg(FALSE, "null", FALSE, "null", "null", 0, 0, <<>>),
     Msg(TRUE, "hello", TRUE, "move", "forward", 10 * SubMs, 50, <<>>)}

Messages ==
    MoveMessages \cup SequenceMessages \cup StatusMessages
    \cup MalformedMessages \cup ForeignMessages

-----------------------------------------------------------------------------
(* The machine: RobotStatus and the outputs, m = [rs |-> ..., pins |-> ...] *)

AllOff == [lf |-> FALSE, lb |-> FALSE, rf |-> FALSE, rb |-> FALSE, pwm0 |-> 0, pwm1 |-> 0]

RobotStatus0 ==
    [isMoving |-> FALSE, currentDirection |-> "stop", currentSpeed |-> 0,
     moveStartTime |-> 0, moveDuration |-> 0]

\* stopRobot without line 58
stopRobot_keepsSpeed(m) ==
    [rs   |-> [m.rs EXCEPT !.isMoving = FALSE, !.currentDirection = "stop"],
     pins |-> AllOff]

\* stopRobot that writes the duty from currentSpeed before it zeroes the speed
stopRobot_dutyFromSpeed(m) ==
    [rs   |-> [m.rs EXCEPT !.isMoving = FALSE, !.currentDirection = "stop",
                           !.currentSpeed = 0],
     pins |-> [AllOff EXCEPT !.pwm0 = m.rs.currentSpeed, !.pwm1 = m.rs.currentSpeed]]

stopRobot(m) ==
    [rs   |-> [m.rs EXCEPT !.isMoving = FALSE, !.currentDirection = "stop",
                           !.currentSpeed = 0],
     pins |-> AllOff]

\* the body shared by moveForward, moveBackward, turnLeft and turnRight
Drive(m, lf, lb, rf, rb, name, speed) ==
    LET pwmValue == map(speed, 0, SPEED_MAX, 0, PWM_MAX)
    IN  [rs   |-> [m.rs EXCEPT !.currentDirection = name, !.currentSpeed = speed],
         pins |-> [lf |-> lf, lb |-> lb, rf |-> rf, rb |-> rb,
                   pwm0 |-> pwmValue, pwm1 |-> pwmValue]]

moveForward(m, speed)  == Drive(m, TRUE, FALSE, TRUE, FALSE, "forward", speed)
moveBackward(m, speed) == Drive(m, FALSE, TRUE, FALSE, TRUE, "backward", speed)
\* turnLeft with the pin levels of turnRight
turnLeft_asRight(m, speed) == Drive(m, TRUE, FALSE, FALSE, TRUE, "left", speed)
turnLeft(m, speed)     == Drive(m, FALSE, TRUE, TRUE, FALSE, "left", speed)
turnRight(m, speed)    == Drive(m, TRUE, FALSE, FALSE, TRUE, "right", speed)

\* executeRobotMove that arms startTime only when no move is in progress
executeRobotMove_keepsStart(m, direction, duration, speed, now) ==
    {LET start == IF m.rs.isMoving THEN m.rs.moveStartTime ELSE now
         armed == [m EXCEPT !.rs.isMoving = TRUE, !.rs.moveStartTime = start,
                            !.rs.moveDuration = ms]
     IN  CASE direction = "forward"  -> moveForward(armed, speed)
           [] direction = "backward" -> moveBackward(armed, speed)
           [] direction = "left"     -> turnLeft(armed, speed)
           [] direction = "right"    -> turnRight(armed, speed)
           [] direction = "stop"     -> stopRobot(armed)
           [] OTHER                  -> armed
     : ms \in DurationMillis(duration)}

\* executeRobotMove that takes the start time one polling period late
executeRobotMove_armsLate(m, direction, duration, speed, now) ==
    {LET armed == [m EXCEPT !.rs.isMoving = TRUE,
                            !.rs.moveStartTime = (now + POLL_DELAY) % ClockMod,
                            !.rs.moveDuration = ms]
     IN  CASE direction = "forward"  -> moveForward(armed, speed)
           [] direction = "backward" -> moveBackward(armed, speed)
           [] direction = "left"     -> turnLeft(armed, speed)
           [] direction = "right"    -> turnRight(armed, speed)
           [] direction = "stop"     -> stopRobot(armed)
           [] OTHER                  -> armed
     : ms \in DurationMillis(duration)}

\* the outcomes of executeRobotMove(direction, duration, speed) called at `now`
executeRobotMove(m, direction, duration, speed, now) ==
    {LET armed == [m EXCEPT !.rs.isMoving = TRUE, !.rs.moveStartTime = now,
                            !.rs.moveDuration = ms]
     IN  CASE direction = "forward"  -> moveForward(armed, speed)
           [] direction = "backward" -> moveBackward(armed, speed)
           [] direction = "left"     -> turnLeft(armed, speed)
           [] direction = "right"    -> turnRight(armed, speed)
           [] direction = "stop"     -> stopRobot(armed)
           [] OTHER                  -> armed
     : ms \in DurationMillis(duration)}

\* checkRobotMovement with `elapsed > moveDuration`
checkRobotMovement_late(m, now) ==
    IF m.rs.isMoving /\ m.rs.moveDuration > 0
    THEN LET elapsed == USub(now, m.rs.moveStartTime)
         IN  IF elapsed > m.rs.moveDuration THEN stopRobot(m) ELSE m
    ELSE m

checkRobotMovement(m, now) ==
    IF m.rs.isMoving /\ m.rs.moveDuration > 0
    THEN LET elapsed == USub(now, m.rs.moveStartTime)
         IN  IF elapsed >= m.rs.moveDuration THEN stopRobot(m) ELSE m
    ELSE m

getBatteryLevel(adcValue) ==
    LET batteryLevel == map(adcValue, 0, ADC_MAX, 0, BATTERY_MAX)
    IN  constrain(batteryLevel, 0, BATTERY_MAX)

\* the document built by the get_status branch
StatusDoc(rs, battery) ==
    [type |-> "robot_status", isMoving |-> rs.isMoving,
     direction |-> rs.currentDirection, speed |-> rs.currentSpeed,
     battery |-> battery]

delay(ms) == clock' = (clock + ms) % ClockMod

Machine == [rs |-> robotStatus, pins |-> pins]
SetMachine(m) == robotStatus' = m.rs /\ pins' = m.pins

-----------------------------------------------------------------------------
(* History: what an observer of the run has seen *)

NoCall == [made |-> FALSE, direction |-> "none", duration |-> 0, time |-> 0,
           wasMoving |-> FALSE, polls |-> 0]

NoSequence == [n |-> 0, exec |-> 0, trans |-> 0, stops |-> 0,
               startMoving |-> FALSE, firstStop |-> FALSE, idle |-> 0]

Hist0 == [last |-> "none", call |-> NoCall, seq |-> NoSequence, stoppedBy |-> "none"]

\* the executeRobotMove call that armed the move in progress, NoCall when the
\* robot is not moving: the direction and duration asked for, the time of the
\* call, whether a move was in progress when it was made, and the number of
\* polls since, each followed by a delay of POLL_DELAY ms (MaxPolls: or more)
NoteCall(direction, duration, rs) ==
    IF rs.isMoving
    THEN [made |-> TRUE, direction |-> direction, duration |-> duration,
          time |-> clock, wasMoving |-> robotStatus.isMoving, polls |-> 0]
    ELSE NoCall

\* the note kept across a poll that ends in status rs
KeepCall(rs) ==
    IF rs.isMoving
    THEN [hist.call EXCEPT !.polls = IF @ < MaxPolls THEN @ + 1 ELSE @]
    ELSE NoCall

\* what stopped the robot last ("none" while it moves): a command, a poll, or
\* a poll that ended a move armed while another move was in progress
AfterPoll(rs) ==
    IF rs.isMoving THEN "none"
    ELSE IF robotStatus.isMoving
         THEN IF hist.call.wasMoving THEN "poll_after_overwrite" ELSE "poll"
         ELSE hist.stoppedBy
AfterCall(rs) == IF rs.isMoving THEN "none" ELSE "command"

\* the note of the sequence command being handled, after one more step of the
\* for loop has called executeRobotMove and left status rs; idle is the time
\* in ms the handler has since spent in delay() with the robot stopped
NoteStep(note, step, rs) ==
    [note EXCEPT
        !.exec = @ + 1,
        !.idle = 0,
        !.stops = IF step.direction = "stop" THEN @ + 1 ELSE @,
        !.firstStop = IF note.exec = 0 THEN step.direction = "stop" ELSE @,
        !.trans = IF ~robotStatus.isMoving /\ rs.isMoving THEN @ + 1 ELSE @]

\* how an observer classifies an inbound message
KindOf(msg) ==
    IF ~msg.json \/ msg.type # "robot_control" THEN "foreign"
    ELSE IF ~msg.hasCommand THEN "no_command"
    ELSE IF msg.action \in {"move", "sequence", "get_status"} THEN msg.action
    ELSE IF msg.action = "null" THEN "no_action"
    ELSE "unknown_action"

-----------------------------------------------------------------------------
(* Initial state: globals constructed, setup() not yet run *)

Init ==
    /\ robotStatus = RobotStatus0
    /\ pins = AllOff
    /\ clock = 0
    /\ pc = "setup"
    /\ seqRest = <<>>
    /\ seqSpeed = 0
    /\ outbox = <<>>
    /\ hist = Hist0

(* initRobotControl(), called from setup() *)
initRobotControl ==
    /\ pc = "setup"
    /\ SetMachine(stopRobot(Machine))
    /\ pc' = "ws"
    /\ hist' = [hist EXCEPT !.stoppedBy = "init"]
    /\ UNCHANGED <<clock, seqRest, seqSpeed, outbox>>

\* the iteration that calls executeRobotMove without the command's speed
SeqIterate_dropsSpeed(steps, speed, note) ==
    LET step == Head(steps)
    IN  \E m \in executeRobotMove(Machine, step.direction, step.duration, 0, clock) :
            /\ SetMachine(m)
            /\ seqRest' = Tail(steps)
            /\ seqSpeed' = speed
            /\ pc' = "seq_while"
            /\ hist' = [hist EXCEPT
                          !.last = "sequence",
                          !.call = NoteCall(step.direction, step.duration, m.rs),
                          !.seq = NoteStep(note, step, m.rs),
                          !.stoppedBy = AfterCall(m.rs)]

(* sequence branch: one iteration of the for loop, up to its while loop: *)
(* executeRobotMove(direction, duration, speed) for the first of `steps`  *)
SeqIterate(steps, speed, note) ==
    LET step == Head(steps)
    IN  \E m \in executeRobotMove(Machine, step.direction, step.duration,
                                  speed, clock) :
            /\ SetMachine(m)
            /\ seqRest' = Tail(steps)
            /\ seqSpeed' = speed
            /\ pc' = "seq_while"
            /\ hist' = [hist EXCEPT
                          !.last = "sequence",
                          !.call = NoteCall(step.direction, step.duration, m.rs),
                          !.seq = NoteStep(note, step, m.rs),
                          !.stoppedBy = AfterCall(m.rs)]

(* the branches of handleRobotControlMessage *)

\* the early return on a missing command, and an action that matches no branch
HandleNothing(msg) ==
    /\ pc' = "check"
    /\ hist' = [hist EXCEPT !.last = KindOf(msg)]
    /\ UNCHANGED <<robotStatus, pins, seqRest, seqSpeed, outbox>>

HandleMove(msg) ==
    \E m \in executeRobotMove(Machine, msg.direction, msg.duration, msg.speed, clock) :
        /\ SetMachine(m)
        /\ pc' = "check"
        /\ hist' = [hist EXCEPT
                      !.last = KindOf(msg),
                      !.call = NoteCall(msg.direction, msg.duration, m.rs),
                      !.stoppedBy = AfterCall(m.rs)]
        /\ UNCHANGED <<seqRest, seqSpeed, outbox>>

HandleSequence(msg) ==
    IF msg.sequence = <<>>
    THEN HandleNothing(msg)
    ELSE /\ SeqIterate(msg.sequence, msg.speed,
                       [NoSequence EXCEPT !.n = Len(msg.sequence),
                                          !.startMoving = robotStatus.isMoving])
         /\ UNCHANGED outbox

\* the get_status branch that stops the robot before it reports
HandleStatus_stopsFirst(msg) ==
    \E adcValue \in AdcValues :
        LET m == stopRobot(Machine)
        IN  /\ SetMachine(m)
            /\ outbox' = Append(outbox, StatusDoc(m.rs, getBatteryLevel(adcValue)))
            /\ pc' = "check"
            /\ hist' = [hist EXCEPT !.last = KindOf(msg)]
            /\ UNCHANGED <<seqRest, seqSpeed>>

HandleStatus(msg) ==
    \E adcValue \in AdcValues :
        /\ outbox' = Append(outbox, StatusDoc(robotStatus, getBatteryLevel(adcValue)))
        /\ pc' = "check"
        /\ hist' = [hist EXCEPT !.last = KindOf(msg)]
        /\ UNCHANGED <<robotStatus, pins, seqRest, seqSpeed>>

\* handleRobotControlMessage whose last branch is a plain else
handleRobotControlMessage_elseStatus(msg) ==
    IF ~msg.hasCommand
    THEN HandleNothing(msg)
    ELSE CASE msg.action = "move"       -> HandleMove(msg)
           [] msg.action = "sequence"   -> HandleSequence(msg)
           [] OTHER                     -> HandleStatus(msg)

(* handleRobotControlMessage(doc) up to its return, or up to the first while *)
(* loop of the sequence branch                                               *)
handleRobotControlMessage(msg) ==
    IF ~msg.hasCommand
    THEN HandleNothing(msg)
    ELSE CASE msg.action = "move"       -> HandleMove(msg)
           [] msg.action = "sequence"   -> HandleSequence(msg)
           [] msg.action = "get_status" -> HandleStatus(msg)
           [] OTHER                     -> HandleNothing(msg)

(* webSocketEvent(WStype_TEXT, payload) *)
webSocketEvent(msg) ==
    IF ~msg.json \/ msg.type # "robot_control"
    THEN HandleNothing(msg)
    ELSE handleRobotControlMessage(msg)

\* delivery that also happens from inside the wait loop of the sequence branch
Deliver_reentrant(msg) ==
    /\ pc \in {"ws", "seq_while"}
    /\ webSocketEvent(msg)
    /\ UNCHANGED clock

(* loop(): webSocket.loop() delivers one text message *)
Deliver(msg) ==
    /\ pc = "ws"
    /\ webSocketEvent(msg)
    /\ UNCHANGED clock

(* loop(): webSocket.loop() has nothing to deliver *)
WsIdle ==
    /\ pc = "ws"
    /\ pc' = "check"
    /\ UNCHANGED <<robotStatus, pins, clock, seqRest, seqSpeed, outbox, hist>>

(* loop(): checkRobotMovement(); delay(10); the turn ends and what it sent *)
(* is on the wire                                                           *)
LoopCheck ==
    /\ pc = "check"
    /\ LET m == checkRobotMovement(Machine, clock)
       IN  /\ SetMachine(m)
           /\ hist' = [hist EXCEPT !.last = "none", !.call = KeepCall(m.rs),
                                   !.stoppedBy = AfterPoll(m.rs)]
    /\ delay(POLL_DELAY)
    /\ outbox' = <<>>
    /\ pc' = "ws"
    /\ UNCHANGED <<seqRest, seqSpeed>>

(* sequence branch: the for loop goes on to its next step *)
SeqStep ==
    /\ pc = "seq_for"
    /\ seqRest # <<>>
    /\ SeqIterate(seqRest, seqSpeed, hist.seq)
    /\ UNCHANGED <<clock, outbox>>

(* sequence branch: while (robotStatus.isMoving) { checkRobotMovement(); *)
(* delay(10); }                                                          *)
SeqCheck ==
    /\ pc = "seq_while"
    /\ robotStatus.isMoving
    /\ LET m == checkRobotMovement(Machine, clock)
       IN  /\ SetMachine(m)
           /\ hist' = [hist EXCEPT !.call = KeepCall(m.rs),
                                   !.stoppedBy = AfterPoll(m.rs),
                                   !.seq.idle = IF m.rs.isMoving THEN 0 ELSE POLL_DELAY]
    /\ delay(POLL_DELAY)
    /\ pc' = "seq_while"
    /\ UNCHANGED <<seqRest, seqSpeed, outbox>>

\* the sequence branch without its while loop
SeqPause_noWait ==
    /\ pc = "seq_while"
    /\ delay(STEP_PAUSE)
    /\ pc' = "seq_for"
    /\ hist' = [hist EXCEPT !.seq.idle = @ + STEP_PAUSE]
    /\ UNCHANGED <<robotStatus, pins, seqRest, seqSpeed, outbox>>

(* sequence branch: the while loop ends; delay(100) *)
SeqPause ==
    /\ pc = "seq_while"
    /\ ~robotStatus.isMoving
    /\ delay(STEP_PAUSE)
    /\ pc' = "seq_for"
    /\ hist' = [hist EXCEPT !.seq.idle = @ + STEP_PAUSE]
    /\ UNCHANGED <<robotStatus, pins, seqRest, seqSpeed, outbox>>

(* sequence branch: the for loop ends and the handler returns to loop() *)
SeqReturn ==
    /\ pc = "seq_for"
    /\ seqRest = <<>>
    /\ pc' = "check"
    /\ seqSpeed' = 0
    /\ hist' = [hist EXCEPT !.seq = NoSequence]
    /\ UNCHANGED <<robotStatus, pins, clock, seqRest, outbox>>

Receive == \E msg \in Messages : Deliver(msg)

Next ==
    \/ initRobotControl
    \/ Receive
    \/ WsIdle
    \/ LoopCheck
    \/ SeqStep
    \/ SeqCheck
    \/ SeqPause
    \/ SeqReturn

Spec == Init /\ [][Next]_vars

\* the program keeps running: every step of loop() and of the handler is taken
Run ==
    \/ initRobotControl
    \/ WsIdle
    \/ LoopCheck
    \/ SeqStep
    \/ SeqCheck
    \/ SeqPause
    \/ SeqReturn

FairSpec == Init /\ [][Next]_vars /\ WF_vars(Run)

-----------------------------------------------------------------------------
(* Vocabulary of the properties *)

\* the safe stopped state: status stopped and every actuator output off
Stopped ==
    /\ ~robotStatus.isMoving
    /\ robotStatus.currentDirection = "stop"
    /\ robotStatus.currentSpeed = 0
    /\ pins = AllOff

\* a step from a state where the next thing the program does is
\* checkRobotMovement(): any step that is not a stutter is that poll
AtPoll == pc = "check" \/ (pc = "seq_while" /\ robotStatus.isMoving)

\* now - startTime as the poll computes it
Elapsed == USub(clock, robotStatus.moveStartTime)

\* floor(duration * 1000), in ms, of a duration >= 0 given in model units
FloorMs(duration) == duration \div SubMs

\* the poll leaves the move as it is
StillMoving ==
    /\ robotStatus'.isMoving
    /\ robotStatus'.currentDirection = robotStatus.currentDirection
    /\ robotStatus'.currentSpeed = robotStatus.currentSpeed

-----------------------------------------------------------------------------
(* C1 as stated, for the durations of 1 ms and more: after executeRobotMove  *)
(* with a moving direction, a poll with now - startTime < duration*1000 ms   *)
(* leaves the move as it is and a poll with                                  *)
(* now - startTime >= duration*1000 ms stops the robot with all outputs off. *)
C1_AsStated ==
    [][(AtPoll /\ hist.call.made /\ hist.call.direction \in MovingDirections
            /\ hist.call.duration >= SubMs)
        => IF Elapsed * SubMs < hist.call.duration THEN StillMoving ELSE Stopped']_vars

(* C1 amended: the deadline is the whole number of milliseconds              *)
(* D = floor(duration*1000) that executeRobotMove stores. A poll with        *)
(* now - startTime < D, and every poll when D = 0, leaves isMoving, the      *)
(* direction and the speed as they are; the first poll with                  *)
(* now - startTime >= D >= 1 stops the robot with all outputs off.           *)
C1_TimedMove ==
    [][(AtPoll /\ hist.call.made /\ hist.call.direction \in MovingDirections
            /\ hist.call.duration > 0)
        => LET D == FloorMs(hist.call.duration)
           IN  IF D = 0 \/ Elapsed < D THEN StillMoving ELSE Stopped']_vars

\* a timed move with a moving direction has been stopped by a poll
C1_Witness ==
    /\ hist.stoppedBy = "poll"
    /\ Stopped
    /\ robotStatus.moveDuration = FloorMs(10 * SubMs)

-----------------------------------------------------------------------------
(* C8: in every reachable state, isMoving == false implies                   *)
(* direction == stop and speed == 0.                                         *)
C8_StoppedMeansStop ==
    ~robotStatus.isMoving =>
        robotStatus.currentDirection = "stop" /\ robotStatus.currentSpeed = 0

\* the robot has moved and a poll has stopped it
C8_Witness == hist.stoppedBy = "poll" /\ ~robotStatus.isMoving /\ pc = "ws"

-----------------------------------------------------------------------------
(* C10: a message with no command field, a command with no action field and  *)
(* a command whose action is none of move, sequence, get_status leave        *)
(* RobotStatus and all actuator outputs unchanged and send nothing.          *)
C10_MalformedIgnored ==
    [][\A msg \in MalformedMessages :
          Deliver(msg) => UNCHANGED <<robotStatus, pins, outbox>>]_vars

\* a malformed message has been handled with a move in progress
C10_Witness ==
    /\ hist.last \in {"no_command", "no_action", "unknown_action"}
    /\ robotStatus.isMoving
    /\ pins # AllOff

-----------------------------------------------------------------------------
\* now minus the time of the executeRobotMove call that armed the move
SinceCall == USub(clock, hist.call.time)

(* C9 as stated, for the new durations of 1 ms and more: executeRobotMove    *)
(* called while a move is in progress abandons the prior deadline: a poll    *)
(* stops the robot exactly when now >= (time of the new call) + (new         *)
(* duration), whatever the old startTime and the old duration were.          *)
C9_AsStated ==
    [][(AtPoll /\ hist.call.made /\ hist.call.wasMoving
            /\ hist.call.duration >= SubMs)
        => (~robotStatus'.isMoving <=> SinceCall * SubMs >= hist.call.duration)]_vars

(* C9 amended: with a new duration >= 0 and D = floor(new duration*1000),    *)
(* no poll with now - (time of the new call) < D stops the robot, whatever   *)
(* the old startTime and duration were; the first poll with                  *)
(* now - (time of the new call) >= D >= 1 stops it; with D = 0 no poll       *)
(* stops it.                                                                 *)
C9_OverwriteRearms ==
    [][(AtPoll /\ hist.call.made /\ hist.call.wasMoving /\ hist.call.duration >= 0)
        => LET D == FloorMs(hist.call.duration)
           IN  IF D >= 1 /\ SinceCall >= D THEN Stopped' ELSE robotStatus'.isMoving]_vars

\* a move armed while another was in progress has run to its own deadline
C9_Witness == hist.stoppedBy = "poll_after_overwrite" /\ Stopped

-----------------------------------------------------------------------------
\* the handler of a sequence command is at the end of its for loop
SequenceEnds == pc = "seq_for" /\ seqRest = <<>>

\* what one iteration of the for loop must do with `step` at speed `speed`
StepDone(step, speed, transBefore) ==
    /\ seqSpeed' = speed
    /\ step.direction \in MovingDirections =>
          /\ robotStatus'.isMoving
          /\ robotStatus'.currentDirection = step.direction
          /\ robotStatus'.currentSpeed = speed
    /\ step.direction = "stop" => Stopped'
    /\ hist'.seq.trans =
          IF ~robotStatus.isMoving /\ step.direction # "stop"
          THEN transBefore + 1 ELSE transBefore

(* C5 as stated: handling of a sequence command of N steps ends after        *)
(* exactly N stop-to-move transitions, with isMoving == false.               *)
C5_AsStated ==
    SequenceEnds => hist.seq.trans = hist.seq.n /\ ~robotStatus.isMoving

(* C5 amended: the steps are passed to executeRobotMove one by one, in       *)
(* order, with the sequence's speed. A step with a moving direction leaves   *)
(* isMoving == true with the step's direction and the sequence's speed; a    *)
(* stop step leaves the robot stopped, makes no transition and does not end  *)
(* the sequence; a step makes a stop-to-move transition exactly when it is   *)
(* not a stop step and the robot is stopped when it starts, which holds for  *)
(* every step but the first. When handling of N >= 1 steps ends, all N steps *)
(* have run, isMoving == false and the transitions number N less the stop    *)
(* steps, less one when the command arrived during a move and its first      *)
(* step is not stop.                                                         *)
C5_SequenceSteps ==
    [][/\ (pc = "ws" /\ pc' = "seq_while") =>
            \* the first step, as the observer noted it
            /\ hist'.seq.exec = 1
            /\ Len(seqRest') = hist'.seq.n - 1
            /\ ~hist'.seq.firstStop => hist'.call.made
            /\ StepDone(Step(IF hist'.seq.firstStop THEN "stop"
                             ELSE hist'.call.direction, hist'.call.duration),
                        seqSpeed', 0)
       /\ (pc = "seq_for" /\ pc' = "seq_while") =>
            /\ seqRest' = Tail(seqRest)
            /\ StepDone(Head(seqRest), seqSpeed, hist.seq.trans)
       /\ pc' = "seq_for" => ~robotStatus'.isMoving
       /\ SequenceEnds' =>
            /\ hist'.seq.exec = hist'.seq.n
            /\ hist'.seq.trans =
                  hist'.seq.n - hist'.seq.stops
                  - (IF hist'.seq.startMoving /\ ~hist'.seq.firstStop THEN 1 ELSE 0)
      ]_vars

\* a sequence of two moving steps has been handled to its end
C5_Witness ==
    /\ SequenceEnds
    /\ hist.seq.n = 2
    /\ hist.seq.trans = 2
    /\ hist.seq.stops = 0

-----------------------------------------------------------------------------
(* C2 as stated: when no further command arrives and loop() keeps polling,   *)
(* the robot eventually is in the safe stopped state: either commands keep   *)
(* arriving or the robot is stopped again and again.                         *)
C2_AsStated == ([]<><<Receive>>_vars) \/ ([]<>Stopped)

(* C3 as stated: once a stop step of a sequence has run, no later step is    *)
(* passed to executeRobotMove and no actuator output is switched on while    *)
(* the command is handled.                                                   *)
C3_AsStated ==
    [][(hist.seq.stops > 0 /\ pc \in {"seq_for", "seq_while"})
        => /\ ~(pc = "seq_for" /\ pc' = "seq_while")
           /\ pins' = AllOff]_vars

(* C4 as stated: executeRobotMove with duration <= 0 or with direction stop  *)
(* returns with the robot in the safe stopped state.                         *)
C4_AsStated ==
    [][/\ \A msg \in MoveMessages :
            ((msg.duration <= 0 \/ msg.direction = "stop") /\ Deliver(msg))
                => Stopped'
       /\ (/\ pc = "seq_for"
           /\ seqRest # <<>>
           /\ (Head(seqRest).duration <= 0 \/ Head(seqRest).direction = "stop"))
                => Stopped'
      ]_vars

(* C6 as stated: a move whose direction is none of forward, backward, left,  *)
(* right, stop leaves every field of RobotStatus and every actuator output   *)
(* as it was.                                                                *)
C6_AsStated ==
    [][\A msg \in MoveMessages :
          (msg.direction \notin MovingDirections \cup {"stop"} /\ Deliver(msg))
              => UNCHANGED <<robotStatus, pins>>]_vars

(* C7 as stated: handling of every sequence command eventually returns.      *)
C7_AsStated == (pc \in {"seq_for", "seq_while"}) ~> (pc \notin {"seq_for", "seq_while"})

-----------------------------------------------------------------------------
\* speed * 255 / 100 rounded to the nearest integer, for speed >= 0
RoundDuty(speed) == (speed * PWM_MAX * 2 + SPEED_MAX) \div (2 * SPEED_MAX)

\* the last executeRobotMove call was one of the four moves, at a speed in range
MovedInRange ==
    /\ robotStatus.isMoving
    /\ robotStatus.currentDirection \in MovingDirections
    /\ robotStatus.currentSpeed \in 0..SPEED_MAX

(* C11 as stated: for a speed in [0,100] the duty written to both PWM         *)
(* channels by a move equals round(speed * 255 / 100), rounding to nearest,   *)
(* and lies in [0,255].                                                       *)
C11_AsStated ==
    MovedInRange =>
        /\ pins.pwm0 = RoundDuty(robotStatus.currentSpeed)
        /\ pins.pwm1 = RoundDuty(robotStatus.currentSpeed)
        /\ pins.pwm0 \in 0..PWM_MAX

-----------------------------------------------------------------------------
(* C12: a get_status command sends exactly one robot_status message whose    *)
(* isMoving, direction and speed are those of RobotStatus and whose battery  *)
(* lies in [0,100], and leaves RobotStatus, deadline included, and all       *)
(* actuator outputs unchanged.                                               *)
C12_StatusReport ==
    [][\A msg \in StatusMessages :
          Deliver(msg) =>
              /\ Len(outbox') = Len(outbox) + 1
              /\ LET doc == outbox'[Len(outbox')]
                 IN  /\ doc.type = "robot_status"
                     /\ doc.isMoving = robotStatus.isMoving
                     /\ doc.direction = robotStatus.currentDirection
                     /\ doc.speed = robotStatus.currentSpeed
                     /\ doc.battery \in 0..BATTERY_MAX
              /\ UNCHANGED <<robotStatus, pins>>]_vars

\* a status report has been sent during a move
C12_Witness ==
    /\ hist.last = "get_status"
    /\ Len(outbox) = 1
    /\ outbox[1].isMoving
    /\ outbox[1].direction = "right"
    /\ pins # AllOff

-----------------------------------------------------------------------------
(* C13: stopRobot is idempotent: from every reachable state, calling it      *)
(* twice in a row yields the same RobotStatus and the same actuator outputs  *)
(* as calling it once.                                                       *)
C13_StopIdempotent ==
    LET once == stopRobot(Machine)
    IN  stopRobot(once) = once

\* a state in which stopRobot has something to stop
C13_Witness ==
    /\ robotStatus.isMoving
    /\ robotStatus.currentSpeed > 0
    /\ pins.pwm0 > 0
    /\ stopRobot(Machine) # Machine

-----------------------------------------------------------------------------
\* the handler of a sequence command has not returned yet
InSequence == pc \in {"seq_for", "seq_while"}

(* C14: from the first step of a sequence command until its handler returns  *)
(* no inbound message is dispatched: every step the program takes is a step  *)
(* of that handler, which sends nothing and works through the array of that  *)
(* one command, in order.                                                    *)
C14_NoDispatchInSequence ==
    [][InSequence =>
          /\ ~Receive
          /\ outbox' = outbox
          /\ hist'.last = hist.last
          /\ hist.last = "sequence"
          /\ seqRest' = seqRest \/ (pc = "seq_for" /\ seqRest' = Tail(seqRest))
          /\ InSequence' => (hist'.seq.n = hist.seq.n /\ seqSpeed' = seqSpeed)
      ]_vars

\* the second step of a sequence command is in progress
C14_Witness ==
    /\ pc = "seq_while"
    /\ hist.seq.n = 2
    /\ hist.seq.exec = 2
    /\ robotStatus.isMoving

-----------------------------------------------------------------------------
\* the outputs that the direction table and the duty give: per motor, forward
\* is +, backward is -, off is 0
Outputs(left, right, duty) ==
    [lf |-> left = "+", lb |-> left = "-", rf |-> right = "+", rb |-> right = "-",
     pwm0 |-> duty, pwm1 |-> duty]

OutputsOf(direction, duty) ==
    CASE direction = "forward"  -> Outputs("+", "+", duty)
      [] direction = "backward" -> Outputs("-", "-", duty)
      [] direction = "left"     -> Outputs("-", "+", duty)
      [] direction = "right"    -> Outputs("+", "-", duty)
      [] direction = "stop"     -> Outputs("0", "0", duty)
      [] OTHER                  -> [none |-> TRUE]

(* C15: after initRobotControl, in every reachable state the direction pins  *)
(* are those of the current direction (forward +,+; backward -,-; left -,+;  *)
(* right +,-; stop all off) and both duty cycles equal the duty computed     *)
(* from the current speed.                                                   *)
C15_OutputsAgree ==
    pc # "setup" =>
        pins = OutputsOf(robotStatus.currentDirection,
                         map(robotStatus.currentSpeed, 0, SPEED_MAX, 0, PWM_MAX))

\* the robot turns left
C15_Witness ==
    /\ robotStatus.currentDirection = "left"
    /\ pins.lb /\ pins.rf /\ ~pins.lf /\ ~pins.rb
    /\ pins.pwm0 > 0

-----------------------------------------------------------------------------
\* some direction pin is driven
Driven == pins.lf \/ pins.lb \/ pins.rf \/ pins.rb

(* C18 as stated: in every state between operations, isMoving == true if and *)
(* only if the current direction is one of forward, backward, left, right,   *)
(* if and only if some direction pin is driven.                              *)
C18_AsStated ==
    pc # "setup" =>
        /\ robotStatus.isMoving <=> robotStatus.currentDirection \in MovingDirections
        /\ robotStatus.isMoving <=> Driven

-----------------------------------------------------------------------------
(* C19 as stated: whatever the speed field of a move or sequence command,    *)
(* the speed stored in RobotStatus and reported by get_status lies in        *)
(* [0,100] and the duty written to the PWM channels lies in [0,255].         *)
C19_AsStated ==
    /\ robotStatus.currentSpeed \in 0..SPEED_MAX
    /\ \A i \in 1..Len(outbox) : outbox[i].speed \in 0..SPEED_MAX
    /\ pins.pwm0 \in 0..PWM_MAX
    /\ pins.pwm1 \in 0..PWM_MAX

-----------------------------------------------------------------------------
\* the time in ms really elapsed since the executeRobotMove call that armed
\* the move in progress: one POLL_DELAY per poll since (counted up to MaxPolls)
Age == hist.call.polls * POLL_DELAY

\* the poll about to run is one of a move, not overwritten since, that was
\* armed with a duration above 0
TimedPoll == AtPoll /\ hist.call.made /\ hist.call.duration > 0

(* C16 as stated: for a timed move (duration > 0) that is not overwritten,   *)
(* polled every 10 ms, the actuators are switched off no later than one      *)
(* polling period after startTime + duration and never before                *)
(* startTime + duration: a poll that stops the robot comes between the two,  *)
(* and a poll that leaves it moving comes no later than startTime + duration.*)
C16_AsStated ==
    [][TimedPoll =>
          IF robotStatus'.isMoving
          THEN Age * SubMs <= hist.call.duration
          ELSE /\ hist.call.duration <= Age * SubMs
               /\ Age * SubMs <= hist.call.duration + POLL_DELAY * SubMs]_vars

(* C16 amended: with D = floor(duration*1000) the whole number of            *)
(* milliseconds stored and D >= 1, the actuators are switched off by the     *)
(* first poll at or after startTime + D, which comes less than one polling   *)
(* period after startTime + D, and by no poll before startTime + D; with     *)
(* D = 0 (0 < duration < 1 ms) no poll switches them off.                    *)
C16_StopLatency ==
    [][TimedPoll =>
          LET D == FloorMs(hist.call.duration)
          IN  IF D >= 1 /\ Age >= D
              THEN /\ Stopped'
                   /\ hist.call.polls < MaxPolls
                   /\ Age < D + POLL_DELAY
              ELSE /\ robotStatus'.isMoving
                   /\ pins' = pins]_vars

\* a timed move has been polled before its deadline, left alone, and stopped
\* by the next poll
C16_Witness ==
    /\ hist.stoppedBy = "poll"
    /\ Stopped
    /\ robotStatus.moveDuration = FloorMs(10 * SubMs + 1)
    /\ clock = (robotStatus.moveStartTime + 2 * POLL_DELAY) % ClockMod

-----------------------------------------------------------------------------
(* C17: in a sequence, step k+1 is started only after step k has stopped and *)
(* a further 100 ms have passed in delay(), and from the stop to the start   *)
(* of step k+1 the robot is stopped with all actuator outputs off.           *)
C17_PauseBetweenSteps ==
    [][/\ (pc = "seq_while" /\ pc' = "seq_for") =>
            /\ Stopped /\ Stopped'
            /\ hist'.seq.idle >= STEP_PAUSE
       /\ (pc = "seq_for" /\ pc' = "seq_while") =>
            /\ Stopped
            /\ hist.seq.idle >= STEP_PAUSE
            /\ hist.seq.exec >= 1
       /\ (InSequence /\ hist.seq.idle > 0) => Stopped
      ]_vars

\* a step has been stopped by a poll, the pause has passed and the next step
\* is about to start
C17_Witness ==
    /\ pc = "seq_for"
    /\ seqRest # <<>>
    /\ hist.stoppedBy = "poll"
    /\ hist.seq.idle = POLL_DELAY + STEP_PAUSE

-----------------------------------------------------------------------------
\* the move in progress has a deadline (stored duration d >= 1) that lies
\* beyond the next wrap of the clock
WrapsBeforeDeadline ==
    /\ hist.call.made
    /\ hist.call.duration > 0
    /\ robotStatus.moveDuration >= 1
    /\ robotStatus.moveStartTime = hist.call.time
    /\ robotStatus.moveStartTime + robotStatus.moveDuration >= ClockMod

(* C20: with elapsed computed as (now - startTime) modulo 2^w, a move with a *)
(* deadline (stored duration d, 1 <= d < 2^w ms) that starts shortly before  *)
(* the clock wraps is not stopped by a poll before d ms have really elapsed  *)
(* and is stopped by the first poll after d ms have really elapsed.          *)
C20_WrapSafe ==
    [][(AtPoll /\ WrapsBeforeDeadline) =>
          /\ hist.call.polls < MaxPolls
          /\ IF Age >= robotStatus.moveDuration
             THEN Stopped'
             ELSE robotStatus'.isMoving /\ pins' = pins]_vars

\* a move armed before the wrap has been stopped by a poll made after it
C20_Witness ==
    /\ hist.stoppedBy = "poll"
    /\ Stopped
    /\ robotStatus.moveDuration >= 1
    /\ robotStatus.moveStartTime + robotStatus.moveDuration >= ClockMod
    /\ clock < robotStatus.moveStartTime

=============================================================================
